---- MODULE Spec2Model ----
(***************************************************************************)
(* Model of lofasm/data_file_info/data_file_info.py: class LofasmFileInfo. *)
(* One directory, its listing and its catalog (.info) files are the        *)
(* environment; one LofasmFileInfo instance at a time is the program.      *)
(* The format classes (DataFormat._format_list), the collectors            *)
(* (InfoCollector._info_name_list) and the ECSV reader/writer are          *)
(* collaborators outside the file: they appear as fixed tables of what     *)
(* they answer for each entry of a small universe of directory entries.    *)
(***************************************************************************)
EXTENDS Integers, Sequences, FiniteSets, TLC

\* ------------------------------------------------------------------ bounds
\* most entries the directory may hold (catalog files included)
MaxEntries == 2
\* most writes one instance performs
MaxWrites == 2

\* --------------------------------------------------- universe of the inputs
\* Entry names the environment may put in the directory, in the order the
\* interpreter's hash-based containers iterate them.
EntryNames == <<"a", "b", "err", "bad", "junk", "sub1", "sub2", "cat", "d.info", "x.info">>

NameSet == {EntryNames[i] : i \in DOMAIN EntryNames}

\* os.path.basename(directory_abs_path) + '.info'
DirInfoName == "d.info"

\* fn.endswith('.info')
EndsWithInfo(fn) == fn \in {"d.info", "x.info"}

\* os.path.isdir(os.path.join(directory, fn))
IsDir(fn) == fn \in {"sub1", "sub2", "cat"}

\* any(ff.endswith('.info') for ff in os.listdir(os.path.join(directory, d)))
ChildHasInfo(d) == d \in {"cat"}

\* self.formats: the registered format classes, in the order they are iterated
formats == <<"fmt1", "fmt2", "data_dir">>

FormatSet == {formats[i] : i \in DOMAIN formats}

\* kc.is_format(f) of format k on a path that is not a directory
is_format(k, fn) ==
    CASE fn = "a"      -> k \in {"fmt1", "fmt2"}
      [] fn = "b"      -> k = "fmt2"
      [] fn = "err"    -> k = "fmt2"
      [] fn = "bad"    -> k \in {"fmt1", "fmt2"}
      [] fn = "x.info" -> k = "fmt1"
      [] OTHER         -> FALSE

\* InfoCollector._info_name_list.keys(): the columns that have a collector
InfoNameList == <<"station", "channel", "hdr_type", "start_time", "freq">>

InfoNameSet == {InfoNameList[i] : i \in DOMAIN InfoNameList}

\* self.formats[fmt].instantiate_format_cls(f): TRUE when it raises (the file
\* is missing or unreadable)
OpenFails(ls, fn) == fn \notin {ls[i] : i \in DOMAIN ls} \/ fn = "bad"

\* col_collectors[k].collect_method[fmt](f_obj): "val" a value is returned,
\* "notimpl" NotImplementedError is raised, "err" another error is raised
CollectOutcome(k, fmt, fn) ==
    CASE fn = "err" /\ k = "start_time"  -> "err"
      [] fmt = "fmt2" /\ k = "hdr_type"  -> "notimpl"
      [] fmt = "data_dir" /\ k # "start_time" -> "notimpl"
      [] OTHER -> "val"

\* ------------------------------------------------------------ cell values
\* Python None
None == <<"None">>

\* a cell vstack leaves masked
Masked == <<"masked">>

\* the value a collector returns for column k of file fn
Val(fn, k) == <<"val", fn, k>>

\* the argument lists the callers pass as add_col_names
AddColNames == {<<>>, <<"freq", "note">>}

\* the column sets the callers pass to add_columns
AddColumnsArgs == {{"freq", "station", "note"}}

\* a catalog file written earlier by another tool: one row for file "a", with
\* a column that has no collector
T0 ==
    [cols |-> {"filename", "fileformat", "station", "note"},
     rows |-> << [filename |-> "a", fileformat |-> "fmt1",
                  station |-> <<"old", "a", "station">>, note |-> <<"txt">>] >>,
     meta |-> [name |-> "d_info_table", haschild |-> FALSE]]

\* no table: the value of info_table before construction and after a failure
NoTable == [cols |-> {}, rows |-> <<>>, meta |-> [name |-> "", haschild |-> FALSE]]

\* ------------------------------------------------------------ small helpers
Range(s) == {s[i] : i \in DOMAIN s}

\* the elements of the set S as a list, in the containers' iteration order
SetToList(S) == SelectSeq(EntryNames, LAMBDA n : n \in S)

\* the names of S that have a collector, in the registry's iteration order
ColsToList(S) == SelectSeq(InfoNameList, LAMBDA c : c \in S)

\* list.remove(x): drop the first occurrence of x
RECURSIVE ListRemove(_, _)
ListRemove(lst, x) ==
    IF lst = <<>> THEN <<>>
    ELSE IF Head(lst) = x THEN Tail(lst)
    ELSE <<Head(lst)>> \o ListRemove(Tail(lst), x)

\* table['filename'] as a set
Filenames(tbl) == {tbl.rows[i].filename : i \in DOMAIN tbl.rows}

\* ------------------------------------------------------- check_file_format
\* FirstMatch without the break: the last format that accepts fn wins
FirstMatch_last(fn) ==
    LET S == {i \in DOMAIN formats : is_format(formats[i], fn)}
    IN  IF S = {} THEN 0 ELSE CHOOSE i \in S : \A j \in S : i >= j

\* position in formats of the first format whose is_format accepts fn, or 0
FirstMatch(fn) ==
    LET S == {i \in DOMAIN formats : is_format(formats[i], fn)}
    IN  IF S = {} THEN 0 ELSE CHOOSE i \in S : \A j \in S : i <= j

\* the format keys the inner loop creates while it classifies fn: every
\* format it tries, up to the one it breaks at
KeysTried(fn) ==
    IF FirstMatch(fn) = 0 THEN FormatSet
    ELSE {formats[j] : j \in 1..FirstMatch(fn)}

\* FiledUnder with a default: a regular file no format accepts is filed
\* under the first format
FiledUnder_default(k, fs) ==
    SelectSeq(fs, LAMBDA fn :
        \/ k = "info" /\ EndsWithInfo(fn)
        \/ k = "data_dir" /\ IsDir(fn)
        \/ /\ k # "info"
           /\ ~IsDir(fn)
           /\ formats[IF FirstMatch(fn) = 0 THEN 1 ELSE FirstMatch(fn)] = k)

\* the list filed under key k
FiledUnder(k, fs) ==
    SelectSeq(fs, LAMBDA fn :
        \/ k = "info" /\ EndsWithInfo(fn)
        \/ k = "data_dir" /\ IsDir(fn)
        \/ /\ k # "info"
           /\ ~IsDir(fn)
           /\ FirstMatch(fn) # 0
           /\ formats[FirstMatch(fn)] = k)

check_file_format(fs) ==
    LET keys == {"data_dir", "info"}
                \cup UNION {KeysTried(fs[i]) : i \in {j \in DOMAIN fs : ~IsDir(fs[j])}}
    IN  [k \in keys |-> FiledUnder(k, fs)]

\* FileKeys without the test for 'info': the .info list is zipped too
FileKeys_with_info(fls) ==
    SelectSeq(<<"data_dir", "info">> \o SelectSeq(formats, LAMBDA k : k # "data_dir"),
              LAMBDA k : k \in DOMAIN fls)

\* ---------------------------------------------------------- get_format_map
\* self.files.keys() without 'info', in iteration order
FileKeys(fls) ==
    SelectSeq(<<"data_dir">> \o SelectSeq(formats, LAMBDA k : k # "data_dir"),
              LAMBDA k : k \in DOMAIN fls)

\* zip(data_files, file_formats): one pair per listed name
RECURSIVE ZipFiles(_, _)
ZipFiles(fls, keys) ==
    IF keys = <<>> THEN <<>>
    ELSE [i \in DOMAIN fls[Head(keys)] |->
             [filename |-> fls[Head(keys)][i], fileformat |-> Head(keys)]]
         \o ZipFiles(fls, Tail(keys))

\* dict(pairs): a key keeps its first position and takes its last value
RECURSIVE DictOf(_)
DictOf(pairs) ==
    IF pairs = <<>> THEN <<>>
    ELSE LET n    == Len(pairs)
             last == pairs[n]
             init == DictOf(SubSeq(pairs, 1, n - 1))
         IN  IF \E i \in DOMAIN init : init[i].filename = last.filename
             THEN [i \in DOMAIN init |->
                      IF init[i].filename = last.filename THEN last ELSE init[i]]
             ELSE Append(init, last)

get_format_map(fls) == DictOf(ZipFiles(fls, FileKeys(fls)))

\* format_map.keys() as a set, and format_map[f]
MapKeys(fm) == {fm[i].filename : i \in DOMAIN fm}

MapGet(fm, f) == fm[CHOOSE i \in DOMAIN fm : fm[i].filename = f].fileformat

\* -------------------------------------------------------- get_col_collector
get_col_collector(cols) == {c \in cols : c \in InfoNameSet}

\* -------------------------------------------------------------- add_columns
\* ColInfo without the test for an existing column: every requested column
\* is computed again
ColInfo_all(col_collectors, target_table, overwrite) == col_collectors

\* the columns add_columns computes: col_info.keys()
ColInfo(col_collectors, target_table, overwrite) ==
    {cn \in col_collectors : ~(cn \in target_table.cols /\ ~overwrite)}

\* how the loop body ends for one row: "ok", or the error that leaves it
RowOutcome(row, col_info, ls) ==
    IF row.fileformat \notin FormatSet THEN "KeyError"
    ELSE IF OpenFails(ls, row.filename) THEN "open_error"
    ELSE IF \E k \in col_info :
                CollectOutcome(k, row.fileformat, row.filename) = "err"
         THEN "collect_error"
    ELSE "ok"

\* Collected with the except clause leaving cvalue as it was: the cell takes
\* a value although the collector is not implemented
Collected_no_none(k, row) == Val(row.filename, k)

\* col_info[k] entry of one row: the value, or None on NotImplementedError
Collected(k, row) ==
    IF CollectOutcome(k, row.fileformat, row.filename) = "notimpl"
    THEN None
    ELSE Val(row.filename, k)

\* the handles the loop leaves open when it ends at row i with outcome out:
\* f_obj.close() is the last statement of the body, reached only when no
\* collector raised
Unclosed(row, out) == IF out = "collect_error" THEN {row.filename} ELSE {}

\* add_columns(col_collectors, target_table, overwrite) with self.col_names
\* and the directory listing ls.  The result names the table and col_names it
\* leaves, the error that left it (if any), the files it opened and the
\* handles it did not close, and the columns it warned about.
add_columns(col_collectors, target_table, overwrite, col_names, ls) ==
    LET col_info == ColInfo(col_collectors, target_table, overwrite)
        rows     == target_table.rows
        bad      == {i \in DOMAIN rows : RowOutcome(rows[i], col_info, ls) # "ok"}
        stop     == IF bad = {} THEN 0 ELSE CHOOSE i \in bad : \A j \in bad : i <= j
        warned   == {cn \in col_collectors : cn \in target_table.cols /\ ~overwrite}
        cols     == target_table.cols \cup col_info
    IN  IF stop # 0
        THEN [ok |-> FALSE,
              error |-> RowOutcome(rows[stop], col_info, ls),
              table |-> target_table,
              col_names |-> col_names,
              opened |-> {rows[i].filename : i \in
                            {j \in 1..stop :
                               RowOutcome(rows[j], col_info, ls)
                                  \in {"ok", "collect_error"}}},
              unclosed |-> Unclosed(rows[stop], RowOutcome(rows[stop], col_info, ls)),
              warned |-> warned]
        ELSE [ok |-> TRUE,
              error |-> "",
              table |-> [target_table EXCEPT
                           !.cols = cols,
                           !.rows = [i \in DOMAIN rows |->
                                       [c \in cols |->
                                          IF c \in col_info
                                          THEN Collected(c, rows[i])
                                          ELSE rows[i][c]]]],
              col_names |-> col_names \o
                            ColsToList({k \in col_info : k \notin Range(col_names)}),
              opened |-> Filenames(target_table),
              unclosed |-> {},
              warned |-> warned]

\* ------------------------------------------------- table reader and writer
\* vstack with the new rows stacked first
vstack_new_first(t1, t2) ==
    LET cols   == t1.cols \cup t2.cols
        pad(r) == [c \in cols |-> IF c \in DOMAIN r THEN r[c] ELSE Masked]
    IN  [cols |-> cols,
         rows |-> [i \in DOMAIN t2.rows |-> pad(t2.rows[i])]
                  \o [i \in DOMAIN t1.rows |-> pad(t1.rows[i])],
         meta |-> t1.meta]

\* vstack with join_type='inner': only the columns both tables have
vstack_inner(t1, t2) ==
    LET cols    == t1.cols \cap t2.cols
        trim(r) == [c \in cols |-> r[c]]
    IN  [cols |-> cols,
         rows |-> [i \in DOMAIN t1.rows |-> trim(t1.rows[i])]
                  \o [i \in DOMAIN t2.rows |-> trim(t2.rows[i])],
         meta |-> t1.meta]

\* table.vstack([t1, t2]): the rows of t1 then the rows of t2, over the union
\* of the columns, a missing cell masked; the metadata of both
vstack(t1, t2) ==
    LET cols   == t1.cols \cup t2.cols
        pad(r) == [c \in cols |-> IF c \in DOMAIN r THEN r[c] ELSE Masked]
    IN  [cols |-> cols,
         rows |-> [i \in DOMAIN t1.rows |-> pad(t1.rows[i])]
                  \o [i \in DOMAIN t2.rows |-> pad(t2.rows[i])],
         meta |-> [k \in DOMAIN t1.meta \cup DOMAIN t2.meta |->
                     IF k \in DOMAIN t2.meta THEN t2.meta[k] ELSE t1.meta[k]]]

\* info_table.write(outpath, format='ascii.ecsv'): the header and the data
ecsv_write(tbl) ==
    [header |-> [datatype |-> tbl.cols, meta |-> tbl.meta], data |-> tbl.rows]

\* table.Table.read(info_file, format='ascii.ecsv')
ecsv_read(content) ==
    [cols |-> content.header.datatype,
     rows |-> content.data,
     meta |-> content.header.meta]

\* table.Table([names, types], names=('filename', 'fileformat')), no metadata
NewTable(fm_rows) ==
    [cols |-> {"filename", "fileformat"},
     rows |-> fm_rows,
     meta |-> [k \in {} |-> FALSE]]

\* tbl.meta[key] = value
SetMeta(tbl, key, value) ==
    [tbl EXCEPT !.meta = [k \in DOMAIN tbl.meta \cup {key} |->
                            IF k = key THEN value ELSE tbl.meta[k]]]

\* --------------------------------------------------------- setup_info_table
\* for d in self.files['data_dir']: ... self.files['data_dir'].remove(d)
\* The list iterator visits position i of the list as it then is; a removal
\* shifts the rest of the list down while the position still advances.
RECURSIVE PruneDataDirs(_, _)
PruneDataDirs(lst, i) ==
    IF i > Len(lst) THEN lst
    ELSE IF ChildHasInfo(lst[i]) THEN PruneDataDirs(lst, i + 1)
    ELSE PruneDataDirs(ListRemove(lst, lst[i]), i + 1)

\* NewFiles without the set difference: every scanned file counts as new
NewFiles_all(format_map, tbl) == SetToList(MapKeys(format_map))

\* NewFiles with the column names of the table, info_table.keys(), taken for
\* its filenames
NewFiles_minus_keys(format_map, tbl) == SetToList(MapKeys(format_map) \ tbl.cols)

\* list(set(format_map.keys()) - set(self.info_table['filename']))
NewFiles(format_map, tbl) == SetToList(MapKeys(format_map) \ Filenames(tbl))

\* HasNewFiles without the test: the merge runs on every construction
HasNewFiles_always(new_files) == TRUE

\* if self.new_files != []
HasNewFiles(new_files) == new_files # <<>>

\* MergedMeta without the assignment of 'haschild'
MergedMeta_unset(tbl, new_file_tp) == tbl

\* the metadata after the merge: 'haschild' set when a new row is a data_dir
MergedMeta(tbl, new_file_tp) ==
    IF "data_dir" \in Range(new_file_tp) THEN SetMeta(tbl, "haschild", TRUE) ELSE tbl

\* MergeCols resolving the collectors for self.col_names
MergeCols_col_names(curr_col, col_names) == col_names

\* self.get_col_collector(curr_col): the columns whose collectors the merge
\* uses are those of the table read, not self.col_names
MergeCols(curr_col, col_names) == curr_col

\* the branch that finds the catalog file: read it and merge the new files
SetupLoaded(ls, content, fls, format_map, col_names) ==
    LET read        == ecsv_read(content)
        curr_col    == read.cols
        new_files   == NewFiles(format_map, read)
        new_file_tp == [i \in DOMAIN new_files |-> MapGet(format_map, new_files[i])]
        new_f_table == NewTable([i \in DOMAIN new_files |->
                          [filename |-> new_files[i], fileformat |-> new_file_tp[i]]])
        res         == add_columns(get_col_collector(MergeCols(curr_col, Range(col_names))),
                                   new_f_table, FALSE, col_names, ls)
    IN  IF ~HasNewFiles(new_files)
        THEN [ok |-> TRUE, error |-> "", files |-> fls, loaded |-> TRUE,
              read |-> read, new_files |-> new_files, info_table |-> read,
              table_update |-> FALSE, col_names |-> col_names,
              opened |-> {}, unclosed |-> {}, warned |-> {}]
        ELSE [ok |-> res.ok, error |-> res.error, files |-> fls, loaded |-> TRUE,
              read |-> read, new_files |-> new_files,
              info_table |-> MergedMeta(vstack(read, res.table), new_file_tp),
              table_update |-> TRUE, col_names |-> res.col_names,
              opened |-> res.opened, unclosed |-> res.unclosed,
              warned |-> res.warned]

\* FreshUpdate that marks the table only when the scan found a file
FreshUpdate_nonempty(format_map) == format_map # <<>>

\* self.table_update = True at the end of the branch without a catalog file
FreshUpdate(format_map) == TRUE

\* the branch that finds no catalog file: build the table from the format map
SetupFresh(ls, fls, format_map, col_names) ==
    LET haschild == Len(fls["data_dir"]) > 0
        built    == [cols |-> {"filename", "fileformat"},
                     rows |-> format_map,
                     meta |-> [name |-> "d_info_table", haschild |-> haschild]]
        res      == add_columns(get_col_collector(Range(col_names)), built,
                                FALSE, col_names, ls)
    IN  [ok |-> res.ok, error |-> res.error, files |-> fls, loaded |-> FALSE,
         read |-> NoTable, new_files |-> <<>>, info_table |-> res.table,
         table_update |-> FreshUpdate(format_map), col_names |-> res.col_names,
         opened |-> res.opened, unclosed |-> res.unclosed, warned |-> res.warned]

\* setup_info_table() on the listing ls and the catalog files dsk
setup_info_table(ls, dsk, files0, name, col_names) ==
    LET fls        == [files0 EXCEPT !["data_dir"] = PruneDataDirs(files0["data_dir"], 1)]
        format_map == get_format_map(fls)
    IN  IF name \in DOMAIN dsk
        THEN SetupLoaded(ls, dsk[name], fls, format_map, col_names)
        ELSE SetupFresh(ls, fls, format_map, col_names)

\* ------------------------------------------------------------------ __init__
\* InfoFileName taking the last .info entry instead of the first
InfoFileName_last(fls) ==
    IF Len(fls["info"]) < 1 THEN DirInfoName ELSE fls["info"][Len(fls["info"])]

\* self.info_file_name
InfoFileName(fls) ==
    IF Len(fls["info"]) < 1 THEN DirInfoName ELSE fls["info"][1]

\* the default column names
DefaultColNames == <<"station", "channel", "hdr_type", "start_time">>

\* LofasmFileInfo(directory, add_col_names) on the listing ls and the catalog
\* files dsk: what setup_info_table leaves, with the name of the catalog file
\* and whether the warning for several .info files was given
LofasmFileInfo(ls, dsk, add_col_names) ==
    LET fls  == check_file_format(ls)
        name == InfoFileName(fls)
        r    == setup_info_table(ls, dsk, fls, name, DefaultColNames \o add_col_names)
    IN  [r EXCEPT !.warned = r.warned
                      \cup (IF Len(fls["info"]) > 1 THEN {"several .info"} ELSE {})]
         @@ [info_file_name |-> name]

\* ---------------------------------------------------------------- the state
VARIABLES
    listing,        \* os.listdir(directory): the entry names, in listing order
    disk,           \* the content of each regular .info file of the directory
    pc,             \* "none" no instance, "ready" constructed, "failed" __init__ raised
    files,          \* self.files
    info_file_name, \* self.info_file_name
    new_files,      \* self.new_files
    table_update,   \* self.table_update
    col_names,      \* self.col_names
    info_table,     \* self.info_table
    call,           \* what the last call of a method did
    changed,        \* rows or columns were added since the last write
    nwrites,        \* the writes of this instance so far
    last,           \* the result of the last construction, the directory unchanged since
    prev,           \* the result of the construction before it, likewise
    written         \* the table last written, no entry added to the directory since

vars == <<listing, disk, pc, files, info_file_name, new_files, table_update,
          col_names, info_table, call, changed, nwrites, last, prev, written>>

NoFiles == [k \in {"data_dir", "info"} |-> <<>>]

NoCall ==
    [op |-> "none", ok |-> TRUE, error |-> "", loaded |-> FALSE, before |-> NoTable,
     opened |-> {}, unclosed |-> {}, warned |-> {}, wrote |-> FALSE,
     dirtied |-> FALSE, cols |-> {}, overwrite |-> FALSE]

NoRun == [args |-> <<>>, ok |-> FALSE, loaded |-> FALSE, new_files |-> <<>>,
          info_table |-> NoTable, table_update |-> FALSE, done |-> FALSE]

\* nothing written: fresh tells that the instance that wrote had found no
\* catalog file
NoWrite == [valid |-> FALSE, fresh |-> FALSE, table |-> NoTable]

Init ==
    /\ listing = <<>>
    /\ disk = [k \in {} |-> ecsv_write(NoTable)]
    /\ pc = "none"
    /\ files = NoFiles
    /\ info_file_name = ""
    /\ new_files = <<>>
    /\ table_update = FALSE
    /\ col_names = <<>>
    /\ info_table = NoTable
    /\ call = NoCall
    /\ changed = FALSE
    /\ nwrites = 0
    /\ last = NoRun
    /\ prev = NoRun
    /\ written = NoWrite

\* the listing with fn put at position p
InsertAt(ls, p, fn) == SubSeq(ls, 1, p - 1) \o <<fn>> \o SubSeq(ls, p, Len(ls))

\* the catalog files with the content of fn set
Store(dsk, fn, content) ==
    [k \in DOMAIN dsk \cup {fn} |-> IF k = fn THEN content ELSE dsk[k]]

\* The environment puts a new entry in the directory, between two runs; a
\* regular .info file it adds holds the catalog T0.
AddFile(fn, p) ==
    /\ pc = "none"
    /\ Len(listing) < MaxEntries
    /\ fn \notin Range(listing)
    /\ listing' = InsertAt(listing, p, fn)
    /\ disk' = IF EndsWithInfo(fn) /\ ~IsDir(fn)
               THEN Store(disk, fn, ecsv_write(T0))
               ELSE disk
    /\ last' = NoRun
    /\ prev' = NoRun
    /\ written' = NoWrite
    /\ UNCHANGED <<pc, files, info_file_name, new_files, table_update, col_names,
                   info_table, call, changed, nwrites>>

\* obj = LofasmFileInfo(directory, add_col_names)
Construct(add_col_names) ==
    \E r \in {LofasmFileInfo(listing, disk, add_col_names)} :
        /\ pc' = IF r.ok THEN "ready" ELSE "failed"
        /\ files' = IF r.ok THEN r.files ELSE NoFiles
        /\ info_file_name' = IF r.ok THEN r.info_file_name ELSE ""
        /\ new_files' = IF r.ok THEN r.new_files ELSE <<>>
        /\ table_update' = (r.ok /\ r.table_update)
        /\ col_names' = IF r.ok THEN r.col_names ELSE <<>>
        /\ info_table' = IF r.ok THEN r.info_table ELSE NoTable
        /\ call' = [op |-> "__init__", ok |-> r.ok, error |-> r.error,
                    loaded |-> r.loaded, before |-> r.read, opened |-> r.opened,
                    unclosed |-> r.unclosed, warned |-> r.warned, wrote |-> FALSE,
                    dirtied |-> FALSE, cols |-> Range(add_col_names),
                    overwrite |-> FALSE]
        /\ changed' = (r.ok /\ r.table_update)
        /\ nwrites' = 0
        /\ prev' = last
        /\ last' = [args |-> add_col_names, ok |-> r.ok, loaded |-> r.loaded,
                    new_files |-> IF r.ok THEN r.new_files ELSE <<>>,
                    info_table |-> IF r.ok THEN r.info_table ELSE NoTable,
                    table_update |-> (r.ok /\ r.table_update), done |-> TRUE]
        /\ UNCHANGED <<listing, disk, written>>

\* obj.add_columns(obj.get_col_collector(cols), obj.info_table, overwrite)
AddColumns(cols, overwrite) ==
    \E r \in {add_columns(get_col_collector(cols), info_table, overwrite,
                           col_names, listing)} :
        /\ pc = "ready"
        /\ info_table' = r.table
        /\ col_names' = r.col_names
        /\ call' = [op |-> "add_columns", ok |-> r.ok, error |-> r.error,
                    loaded |-> FALSE, before |-> info_table, opened |-> r.opened,
                    unclosed |-> r.unclosed, warned |-> r.warned, wrote |-> FALSE,
                    dirtied |-> FALSE, cols |-> cols, overwrite |-> overwrite]
        /\ changed' = (changed \/ r.table # info_table)
        /\ UNCHANGED <<listing, disk, pc, files, info_file_name, new_files,
                       table_update, nwrites, last, prev, written>>

\* obj.write_info_table()
WriteInfoTable(p) ==
    /\ pc = "ready"
    /\ p \in 1..(Len(listing) + 1)
    /\ table_update => nwrites < MaxWrites
    /\ IF table_update
       THEN /\ disk' = Store(disk, info_file_name, ecsv_write(info_table))
            /\ listing' = IF info_file_name \in Range(listing)
                          THEN listing
                          ELSE InsertAt(listing, p, info_file_name)
            /\ nwrites' = nwrites + 1
            /\ changed' = FALSE
            /\ last' = NoRun
            /\ prev' = NoRun
            /\ written' = [valid |-> TRUE,
                            fresh |-> IF nwrites = 0
                                      THEN info_file_name \notin DOMAIN disk
                                      ELSE written.fresh,
                            table |-> info_table]
       ELSE /\ p = 1
            /\ UNCHANGED <<disk, listing, nwrites, changed, last, prev, written>>
    /\ call' = [NoCall EXCEPT !.op = "write_info_table", !.wrote = table_update,
                              !.dirtied = changed]
    /\ UNCHANGED <<pc, files, info_file_name, new_files, table_update, col_names,
                   info_table>>

\* the caller drops the instance
Exit ==
    /\ pc # "none"
    /\ pc' = "none"
    /\ files' = NoFiles
    /\ info_file_name' = ""
    /\ new_files' = <<>>
    /\ table_update' = FALSE
    /\ col_names' = <<>>
    /\ info_table' = NoTable
    /\ call' = NoCall
    /\ changed' = FALSE
    /\ nwrites' = 0
    /\ UNCHANGED <<listing, disk, last, prev, written>>

Next ==
    \/ \E fn \in NameSet : \E p \in 1..(Len(listing) + 1) : AddFile(fn, p)
    \/ \E a \in AddColNames : Construct(a)
    \/ \E cols \in AddColumnsArgs : \E o \in BOOLEAN : AddColumns(cols, o)
    \/ \E p \in 1..(Len(listing) + 1) : WriteInfoTable(p)
    \/ Exit

Spec == Init /\ [][Next]_vars

\* ------------------------------------------------------------------ claims
\* the rows of tbl whose filename is f
RowsOf(tbl, f) == {i \in DOMAIN tbl.rows : tbl.rows[i].filename = f}

\* a construction has just ended normally, having read the catalog file
JustLoaded == pc = "ready" /\ call.op = "__init__" /\ call.loaded

\* a construction has just ended normally, having found no catalog file
JustBuilt == pc = "ready" /\ call.op = "__init__" /\ ~call.loaded

TwoRuns == prev.done /\ last.done /\ prev.args = last.args

\* C2 as stated (idempotence): the second of two constructions in a row on an
\* unchanged directory yields the table of the first and leaves table_update
\* false.
C2_AsStated ==
    (TwoRuns /\ last.ok) =>
        /\ prev.ok
        /\ last.info_table = prev.info_table
        /\ last.table_update = FALSE

\* C2 amended: the second of two constructions in a row on an unchanged
\* directory ends as the first did, with the same table and the same
\* table_update; table_update is false exactly when the catalog file was read
\* and no scanned file was new, and true otherwise.
C2_Idempotence ==
    TwoRuns =>
        /\ last.ok = prev.ok
        /\ last.info_table = prev.info_table
        /\ last.table_update = prev.table_update
        /\ last.ok =>
              (last.table_update <=> ~(last.loaded /\ last.new_files = <<>>))

\* C2 witness: two constructions in a row read a catalog that names every
\* scanned file; the second left a table with rows and table_update false.
C2_Witness ==
    /\ TwoRuns
    /\ last.ok
    /\ last.loaded
    /\ "a" \in Range(listing)
    /\ last.info_table.rows # <<>>
    /\ last.info_table = prev.info_table
    /\ ~last.table_update

\* C3 (uniqueness): no two rows of the table share a filename, in every state
\* reached by constructions, add_columns calls and writes, from no catalog or
\* from the catalog T0.
C3_UniqueFilenames ==
    \A i, j \in DOMAIN info_table.rows :
        info_table.rows[i].filename = info_table.rows[j].filename => i = j

\* C3 witness: a table of two rows or more, one of them just merged into a
\* catalog that is not the one the environment supplied.
C3_Witness ==
    /\ JustLoaded
    /\ Len(info_table.rows) >= 2
    /\ new_files # <<>>
    /\ call.before # T0

\* a construction has just ended, normally or by raising
JustConstructed == call.op = "__init__"

\* the entries of the directory that are subdirectories without a catalog
\* file in them, and those with one
PlainDirs == {d \in Range(listing) : IsDir(d) /\ ~ChildHasInfo(d)}

CatalogDirs == {d \in Range(listing) : IsDir(d) /\ ChildHasInfo(d)}

\* C4 as stated: after a construction, no subdirectory without a catalog file
\* in it is a key of the format map or a row of the table.
C4_PlainDirsExcluded ==
    (JustConstructed /\ pc = "ready") =>
        \A d \in PlainDirs :
            /\ d \notin MapKeys(get_format_map(files))
            /\ RowsOf(info_table, d) = {}

\* C5: after a construction, every subdirectory with a catalog file in it
\* that the construction put in the table (the table was built from the scan,
\* or the subdirectory was a new row merged into the catalog read) is exactly
\* one row, tagged 'data_dir', and meta['haschild'] is true.
C5_CatalogDirRow ==
    (JustConstructed /\ pc = "ready") =>
        \A d \in CatalogDirs :
            (~call.loaded \/ d \in Range(new_files)) =>
                /\ Cardinality(RowsOf(info_table, d)) = 1
                /\ \A i \in RowsOf(info_table, d) :
                      info_table.rows[i].fileformat = "data_dir"
                /\ "haschild" \in DOMAIN info_table.meta
                /\ info_table.meta["haschild"] = TRUE

\* C5 witness: the catalog T0, whose 'haschild' is false, was read, and the
\* subdirectory "cat" was merged as a new row.
C5_Witness ==
    /\ JustLoaded
    /\ call.before = T0
    /\ "cat" \in Range(new_files)
    /\ info_table.meta["haschild"] = TRUE
    /\ \E i \in DOMAIN info_table.rows :
          /\ info_table.rows[i].filename = "cat"
          /\ info_table.rows[i].fileformat = "data_dir"

\* the cells a collector of this program computed: a value or None
IsCollected(cell) == cell = None \/ cell[1] = "val"

\* the files a call of add_columns may have worked on
Touched == Range(listing) \cup Filenames(call.before) \cup Filenames(info_table)

\* a file that makes add_columns raise: its open fails, or one of its
\* collectors raises something other than NotImplementedError
Raises(f) ==
    \/ OpenFails(listing, f)
    \/ \E k \in InfoNameSet : \E fmt \in FormatSet : CollectOutcome(k, fmt, f) = "err"

\* C6 (not-implemented swallow): a cell add_columns computed is None exactly
\* when the column's collector is not implemented for the row's format, and
\* it holds the collected value otherwise; and a call of add_columns (from
\* the constructor or from the caller) raises only if a file it works on
\* fails to open or has a collector that raises another error.
C6_NotImplementedSwallow ==
    /\ \A i \in DOMAIN info_table.rows :
          \A c \in info_table.cols \cap InfoNameSet :
              LET row == info_table.rows[i]
              IN  IsCollected(row[c]) =>
                    IF CollectOutcome(c, row.fileformat, row.filename) = "notimpl"
                    THEN row[c] = None
                    ELSE row[c] = Val(row.filename, c)
    /\ (call.op \in {"__init__", "add_columns"} /\ ~call.ok) =>
          \E f \in Touched : Raises(f)

\* C6 witness: a table built from the files "b" and "a": hdr_type is not
\* implemented for the format of "b" and is None there, the other columns of
\* "b" and the row of "a" hold their values.
C6_Witness ==
    /\ JustBuilt
    /\ Len(info_table.rows) = 2
    /\ \E i, j \in DOMAIN info_table.rows :
          /\ info_table.rows[i].filename = "b"
          /\ info_table.rows[i]["hdr_type"] = None
          /\ info_table.rows[i]["station"] = Val("b", "station")
          /\ info_table.rows[j].filename = "a"
          /\ info_table.rows[j]["hdr_type"] = Val("a", "hdr_type")

\* the entries of the directory that belong in the table: regular files that
\* match a format and subdirectories with a catalog file in them
Cataloguable ==
    {f \in Range(listing) : IF IsDir(f) THEN ChildHasInfo(f) ELSE FirstMatch(f) # 0}

\* C7 as stated (partial failure): a construction ends with a table even if
\* the file of an entry cannot be opened or read: every entry that belongs in
\* the table has a row, and the row of a new entry whose file fails has None
\* in the columns that have a collector.
C7_PartialFailure ==
    JustConstructed =>
        /\ pc = "ready"
        /\ \A f \in Cataloguable : RowsOf(info_table, f) # {}
        /\ \A i \in DOMAIN info_table.rows :
              LET row == info_table.rows[i]
              IN  (row.filename \notin Filenames(call.before) /\ Raises(row.filename))
                    => \A c \in info_table.cols \cap InfoNameSet : row[c] = None

\* C8 as stated (scoped release): no call of add_columns, ending normally or
\* by an error, leaves a handle it opened unclosed.
C8_HandlesReleased == call.unclosed = {}

\* C9 as stated: write_info_table writes nothing when no rows or columns were
\* added since the last write of the instance.
C9_WriteOnlyWhenDirty ==
    (call.op = "write_info_table" /\ ~call.dirtied) => ~call.wrote

\* C10 (column monotonicity): after a construction that read a catalog, and
\* after a call of add_columns, the columns of the table include the columns
\* of the table before it.
C10_ColumnsGrow ==
    (pc = "ready" /\ call.op \in {"__init__", "add_columns"}) =>
        call.before.cols \subseteq info_table.cols

\* C10 witness: the catalog T0 with its column "note", which has no
\* collector, was read and a new file merged; the column is still there.
C10_Witness ==
    /\ JustLoaded
    /\ call.before = T0
    /\ new_files # <<>>
    /\ "note" \in info_table.cols
    /\ info_table.rows[Len(info_table.rows)]["note"] = Masked

\* the entries of the listing that carry the catalog suffix, in listing order
InfoEntries == SelectSeq(listing, EndsWithInfo)

\* C11 (catalog file selection): a construction takes as catalog file the
\* only .info entry of the directory if there is exactly one, the directory's
\* base name plus '.info' if there is none, and the first in listing order if
\* there are several; it warns about several .info files exactly in the last
\* case, and the warning raises nothing.
C11_CatalogFileSelection ==
    JustConstructed =>
        /\ ("several .info" \in call.warned) <=> (Len(InfoEntries) > 1)
        /\ (call.ok <=> pc = "ready")
        /\ ~call.ok => call.error \in {"open_error", "collect_error"}
        /\ pc = "ready" =>
              info_file_name = IF Len(InfoEntries) = 0 THEN DirInfoName
                               ELSE InfoEntries[1]

\* C11 witness: two .info entries, "x.info" listed before "d.info"; the
\* construction ended normally with "x.info" as its catalog file and gave
\* the warning.
C11_Witness ==
    /\ JustConstructed
    /\ pc = "ready"
    /\ listing = <<"x.info", "d.info">>
    /\ info_file_name = "x.info"
    /\ "several .info" \in call.warned

\* C12: a construction that reads a catalog opens, and runs collectors on,
\* only files of the scan that the catalog does not name: no file named in
\* the catalog read is opened, whether the construction ends normally or not.
C12_CatalogedNeverOpened ==
    (JustConstructed /\ call.loaded) =>
        /\ call.opened \cap Filenames(call.before) = {}
        /\ call.opened \subseteq Range(listing)

\* C12 witness: the catalog read names file "a", which is in the directory;
\* another file was new and was opened, "a" was not.
C12_Witness ==
    /\ JustLoaded
    /\ "a" \in Range(listing)
    /\ "a" \in Filenames(call.before)
    /\ call.opened # {}
    /\ "a" \notin call.opened

\* the regular files of the directory, not .info files, that no registered
\* format accepts
Unformatted ==
    {f \in Range(listing) :
        ~IsDir(f) /\ ~EndsWithInfo(f) /\ \A k \in FormatSet : ~is_format(k, f)}

\* the names self.files lists under a key other than 'info'
Listed == UNION {Range(files[k]) : k \in DOMAIN files \ {"info"}}

\* C13 as stated: after a construction a regular file that matches no format
\* is still listed: it is in the scan result or is a row of the table.
C13_UnformattedListed ==
    (JustConstructed /\ pc = "ready") =>
        \A f \in Unformatted : f \in Listed \/ RowsOf(info_table, f) # {}

\* C13 amended: after a construction a regular file that matches no format is
\* listed nowhere: it is under no key of self.files, it is no key of the
\* format map, it is not opened, and it is a row of the table only if the
\* catalog read already named it.
C13_UnformattedDropped ==
    (JustConstructed /\ pc = "ready") =>
        \A f \in Unformatted :
            /\ f \notin Listed
            /\ f \notin MapKeys(get_format_map(files))
            /\ f \notin call.opened
            /\ f \notin Filenames(call.before) => RowsOf(info_table, f) = {}

\* C13 witness: the directory holds "junk", which no format accepts, and "a";
\* the table built has one row, for "a".
C13_Witness ==
    /\ JustBuilt
    /\ Range(listing) = {"junk", "a"}
    /\ Filenames(info_table) = {"a"}
    /\ Len(info_table.rows) = 1

\* C14 (first match): after a construction a regular file is filed under the
\* format at position i of the registry exactly when that format accepts it
\* and no format before position i does; so it is filed under one format at
\* most, and never under a later format that accepts it too.
C14_FirstMatchWins ==
    (JustConstructed /\ pc = "ready") =>
        \A f \in {g \in Range(listing) : ~IsDir(g)} :
            \A i \in DOMAIN formats :
                (formats[i] \in DOMAIN files /\ f \in Range(files[formats[i]]))
                    <=> /\ is_format(formats[i], f)
                        /\ \A j \in 1..(i - 1) : ~is_format(formats[j], f)

\* C14 witness: file "a", which fmt1 and fmt2 both accept, is filed under
\* fmt1 and not under fmt2, where file "b" is.
C14_Witness ==
    /\ JustConstructed
    /\ pc = "ready"
    /\ is_format("fmt1", "a") /\ is_format("fmt2", "a")
    /\ "fmt2" \in DOMAIN files
    /\ files["fmt1"] = <<"a">>
    /\ files["fmt2"] = <<"b">>

\* C15 (column collision): add_columns called with overwrite false for a
\* column that has a collector and is already in the table warns about the
\* column and leaves every value of it as it was; and the call raises only
\* if a file of the table fails to open or a collector raises.
C15_ColumnCollision ==
    (call.op = "add_columns" /\ ~call.overwrite) =>
        /\ \A c \in get_col_collector(call.cols) \cap call.before.cols :
              /\ c \in call.warned
              /\ c \in info_table.cols
              /\ Len(info_table.rows) = Len(call.before.rows)
              /\ \A i \in DOMAIN info_table.rows :
                    info_table.rows[i][c] = call.before.rows[i][c]
        /\ ~call.ok => \E f \in Filenames(call.before) : Raises(f)

\* C15 witness: on the catalog T0, add_columns for "station" (in the table)
\* and "freq" (not in it) with overwrite false ended normally: it warned
\* about "station", whose value is the one read, and added "freq".
C15_Witness ==
    /\ call.op = "add_columns"
    /\ call.ok
    /\ ~call.overwrite
    /\ "station" \in call.warned
    /\ Len(info_table.rows) = 1
    /\ info_table.rows[1]["station"] = <<"old", "a", "station">>
    /\ "freq" \in info_table.cols
    /\ "freq" \notin call.before.cols

\* C16 as stated: after a construction no entry whose name ends in '.info' is
\* filed under a format, is a key of the format map or is a row of the table.
C16_InfoEntriesExcluded ==
    (JustConstructed /\ pc = "ready") =>
        \A f \in Range(InfoEntries) :
            /\ f \notin Listed
            /\ f \notin MapKeys(get_format_map(files))
            /\ RowsOf(info_table, f) = {}

\* C17 (dirty flag): after a construction table_update is true exactly when
\* the catalog file did not exist, so that the table was built from the scan,
\* or the table holds more rows than the catalog read; it is false when a
\* catalog was read and no file was new.
C17_DirtyFlag ==
    (JustConstructed /\ pc = "ready") =>
        /\ table_update <=>
              \/ info_file_name \notin DOMAIN disk
              \/ Len(info_table.rows) > Len(call.before.rows)
        /\ (call.loaded /\ new_files = <<>>) => ~table_update
        /\ call.loaded <=> info_file_name \in DOMAIN disk

\* C17 witness: an empty directory; the table built has no row and
\* table_update is true.
C17_Witness ==
    /\ JustBuilt
    /\ listing = <<>>
    /\ info_table.rows = <<>>
    /\ table_update

\* C18 as stated: a table built from the scan of a directory none of whose
\* subdirectories holds a catalog file has meta['haschild'] false.
C18_NoChildNoFlag ==
    (JustBuilt /\ CatalogDirs = {}) =>
        /\ "haschild" \in DOMAIN info_table.meta
        /\ info_table.meta["haschild"] = FALSE

C20_ExtraColumnsIgnored ==
    JustLoaded => info_table.cols = call.before.cols

\* C20 witness: add_col_names was ['freq', 'note'], a catalog without 'freq'
\* was read and a new file was merged; the table has no column 'freq'.
C20_Witness ==
    /\ JustLoaded
    /\ call.cols = {"freq", "note"}
    /\ new_files # <<>>
    /\ Len(info_table.rows) > Len(call.before.rows)
    /\ "freq" \notin info_table.cols

====
